---- MODULE Spec2Model ----
(***************************************************************************)
(* State-machine model of the OpenAI-compatible front end of the Arena     *)
(* backend (python-backend/main.py, client.py, config.py).                 *)
(*                                                                         *)
(* Text is modelled as a sequence of one-character strings, so that the    *)
(* prefix tests, the split on ':' and the JSON string decoding of the      *)
(* stream translator are computed as the code computes them.  Python dicts *)
(* are records; a dict whose keys are optional carries a "keys" field.     *)
(* None is NoneStr where the other values are strings and NoneObj where    *)
(* they are records.                                                       *)
(***************************************************************************)
EXTENDS Integers, Sequences, FiniteSets, TLC

VARIABLES
    request,        \* the inbound HTTP request: endpoint, headers, body
    pc,             \* position of the request's handler / generator
    auth_context,   \* result of get_auth_context
    arena_request,  \* the Evaluation Session built by the request translator
    uuids,          \* number of uuid4() values drawn so far
    now,            \* int(time.time()) as last read
    calls,          \* outbound POSTs issued to /api/create-evaluation
    conn,           \* state of the provider stream connection
    response_id,    \* id fixed by _stream_arena_request at stream start
    model,          \* model name fixed by _stream_arena_request at stream start
    lines,          \* provider lines consumed so far by aiter_lines()
    out,            \* frames yielded so far by stream_chat_completion
    failure,        \* the exception that reached stream_chat_completion's handler
    response,       \* the HTTP response (status and body) once decided
    text,           \* the text handed to _estimate_tokens
    tokens,         \* result of _estimate_tokens
    first_session,  \* the session an earlier translation of the same request gave
    response_data   \* what the provider answered to the unary POST

vars == <<request, pc, auth_context, arena_request, uuids, now, calls, conn,
          response_id, model, lines, out, failure, response, text, tokens,
          first_session, response_data>>

----------------------------------------------------------------------------
(* Bounds of the model *)

MaxLines == 3
MaxTime == 1
MaxMsgs == 2
MaxParts == 2
MaxTextLen == 60

----------------------------------------------------------------------------
(* Python values *)

NoneStr == "None"
NoneObj == [none |-> TRUE]

\* s.startswith(p)
StartsWith(s, p) == Len(s) >= Len(p) /\ SubSeq(s, 1, Len(p)) = p

\* s.endswith(p)
EndsWith(s, p) == Len(s) >= Len(p) /\ SubSeq(s, Len(s) - Len(p) + 1, Len(s)) = p

\* c in s
Contains(s, c) == \E i \in 1..Len(s) : s[i] = c

\* s.index(c): position of the first c (s contains c)
IndexOf(s, c) == CHOOSE i \in 1..Len(s) : s[i] = c /\ \A j \in 1..(i - 1) : s[j] # c

\* s.split(c, 1) for s containing c: the text before and after the first c
SplitOnce(s, c) ==
    LET i == IndexOf(s, c)
    IN  [prefix |-> SubSeq(s, 1, i - 1), content |-> SubSeq(s, i + 1, Len(s))]

----------------------------------------------------------------------------
(* json.loads on a text that starts with a double quote *)

Quote == "\""
Backslash == "\\"

\* the two-character escapes of a JSON string and the character each denotes
SimpleEscapes == {Quote, Backslash, "/", "b", "f", "n", "r", "t"}

Unescape(e) ==
    CASE e = Quote -> Quote
      [] e = Backslash -> Backslash
      [] e = "/" -> "/"
      [] e = "b" -> "<BS>"
      [] e = "f" -> "\f"
      [] e = "n" -> "\n"
      [] e = "r" -> "\r"
      [] e = "t" -> "\t"

HexDigits == {"0", "1", "2", "3", "4", "5", "6", "7", "8", "9",
              "a", "b", "c", "d", "e", "f", "A", "B", "C", "D", "E", "F"}

\* characters a strict JSON string may not contain unescaped
ControlChars == {"\n", "\r", "\t", "\f", "<BS>"}

JsonError == [ok |-> FALSE, value |-> <<>>]

\* scan the string literal from position i, acc being the text decoded so far
RECURSIVE ScanString(_, _, _)
ScanString(s, i, acc) ==
    IF i > Len(s) THEN JsonError                       \* unterminated string
    ELSE IF s[i] = Quote
         THEN IF i = Len(s) THEN [ok |-> TRUE, value |-> acc]
              ELSE JsonError                           \* extra data
    ELSE IF s[i] = Backslash
         THEN IF i + 1 > Len(s) THEN JsonError
              ELSE IF s[i + 1] \in SimpleEscapes
                   THEN ScanString(s, i + 2, Append(acc, Unescape(s[i + 1])))
              ELSE IF s[i + 1] = "u"
                   THEN IF i + 5 <= Len(s)
                           /\ \A k \in (i + 2)..(i + 5) : s[k] \in HexDigits
                        THEN ScanString(s, i + 6,
                                 Append(acc, "U+" \o s[i + 2] \o s[i + 3]
                                                  \o s[i + 4] \o s[i + 5]))
                        ELSE JsonError
              ELSE JsonError                           \* invalid escape
    ELSE IF s[i] \in ControlChars THEN JsonError
    ELSE ScanString(s, i + 1, Append(acc, s[i]))

\* json.loads(s) where s[1] is a double quote
json_loads(s) == ScanString(s, 2, <<>>)

----------------------------------------------------------------------------
(* config.py: the Model Registry *)

supported_models ==
    {"gpt-4o-latest", "gpt-4.1-2025-04-14", "gpt-4.1-mini-2025-04-14",
     "claude-3-5-haiku-20241022", "claude-3-5-sonnet-20241022",
     "claude-3-7-sonnet-20250219", "claude-opus-4-20250514",
     "claude-sonnet-4-20250514", "gemini-2.0-flash-001",
     "gemini-2.5-flash-preview-04-17", "gemini-2.5-pro-preview-05-06",
     "llama-3.3-70b-instruct", "llama-4-maverick-03-26-experimental",
     "deepseek-v3-0324", "grok-3-mini-beta", "grok-3-preview-02-24",
     "o3-2025-04-16", "o3-mini", "o4-mini-2025-04-16", "qwen-max-2025-01-25",
     "dall-e-3", "gpt-image-1", "gemini-2.0-flash-preview-image-generation",
     "imagen-3.0-generate-002", "flux-1.1-pro", "ideogram-v2", "photon",
     "recraft-v3"}

model_mapping ==
    [m \in {"gpt-4", "gpt-4-turbo", "gpt-3.5-turbo", "claude-3-sonnet",
            "claude-3-haiku", "gemini-pro", "llama-3"} |->
        CASE m = "gpt-4" -> "gpt-4o-latest"
          [] m = "gpt-4-turbo" -> "gpt-4.1-2025-04-14"
          [] m = "gpt-3.5-turbo" -> "gpt-4.1-mini-2025-04-14"
          [] m = "claude-3-sonnet" -> "claude-3-5-sonnet-20241022"
          [] m = "claude-3-haiku" -> "claude-3-5-haiku-20241022"
          [] m = "gemini-pro" -> "gemini-2.0-flash-001"
          [] m = "llama-3" -> "llama-3.3-70b-instruct"]

\* self.model_mapping.get(model_name, model_name)
get_model_id(model_name) ==
    IF model_name \in DOMAIN model_mapping THEN model_mapping[model_name]
    ELSE model_name

\* is_model_supported answering yes for every name that is not None
is_model_supported_any(model_name) == get_model_id(model_name) # NoneStr

is_model_supported(model_name) == get_model_id(model_name) \in supported_models

----------------------------------------------------------------------------
(* client.py: the Stream Translator *)

\* f"chatcmpl-{int(time.time())}" read at time t
ChatCmplId(t) == [chatcmpl |-> t]

\* the "created" stamp of a chunk is wall-clock time read per chunk; no
\* property below reads it and it is left out of the chunk records
ContentChunk(rid, mdl, content) ==
    [id |-> rid, object |-> "chat.completion.chunk", model |-> mdl,
     choices |-> << [index |-> 0,
                     delta |-> [content |-> content, role |-> "assistant"],
                     finish_reason |-> NoneStr] >>]

FinishChunk(rid, mdl) ==
    [id |-> rid, object |-> "chat.completion.chunk", model |-> mdl,
     choices |-> << [index |-> 0, delta |-> <<>>, finish_reason |-> "stop"] >>]

\* _process_arena_sse_data with the quoted body kept as received
_process_arena_sse_data_verbatim(data, rid, mdl) ==
    IF ~Contains(data, ":") THEN NoneObj
    ELSE LET parts == SplitOnce(data, ":")
         IN  IF parts.prefix = <<"a", "0">>
             THEN ContentChunk(rid, mdl, parts.content)
             ELSE IF parts.prefix \in {<<"a", "e">>, <<"a", "d">>}
                  THEN FinishChunk(rid, mdl)
             ELSE NoneObj

\* _process_arena_sse_data: the chunk for one payload, or NoneObj
_process_arena_sse_data(data, rid, mdl) ==
    IF ~Contains(data, ":") THEN NoneObj
    ELSE LET parts == SplitOnce(data, ":")
             prefix == parts.prefix
             content == parts.content
         IN  IF prefix = <<"a", "0">>
             THEN IF StartsWith(content, <<Quote>>) /\ EndsWith(content, <<Quote>>)
                  THEN LET decoded == json_loads(content)
                       IN  IF decoded.ok
                           THEN ContentChunk(rid, mdl, decoded.value)
                           ELSE NoneObj          \* except Exception: return None
                  ELSE ContentChunk(rid, mdl, content)
             ELSE IF prefix \in {<<"a", "e">>, <<"a", "d">>}
                  THEN FinishChunk(rid, mdl)
             ELSE NoneObj

\* _create_error_chunk, built at time t
_create_error_chunk(error_message, t) ==
    [id |-> ChatCmplId(t), object |-> "chat.completion.chunk", model |-> "unknown",
     choices |-> << [index |-> 0,
                     delta |-> [content |-> <<"Error: ">> \o error_message,
                                role |-> "assistant"],
                     finish_reason |-> "stop"] >>]

\* f"data: {json.dumps(chunk)}\n\n"
SseFrame(chunk) == [json |-> chunk]

\* the literal "data: [DONE]\n\n"
DoneFrame == [literal |-> "data: [DONE]\n\n"]

DataPrefix == <<"d", "a", "t", "a", ":", " ">>
DoneSentinel == <<"[", "D", "O", "N", "E", "]">>

\* the line loop leaving at the first payload that gives no chunk
StreamLineStep_BreakOnNone(line, rid, mdl) ==
    IF StartsWith(line, DataPrefix)
    THEN LET data == SubSeq(line, 7, Len(line))
         IN  IF data = DoneSentinel
             THEN [yield |-> <<DoneFrame>>, break |-> TRUE]
             ELSE LET chunk == _process_arena_sse_data(data, rid, mdl)
                  IN  IF chunk # NoneObj
                      THEN [yield |-> <<SseFrame(chunk)>>, break |-> FALSE]
                      ELSE [yield |-> <<>>, break |-> TRUE]
    ELSE [yield |-> <<>>, break |-> FALSE]

\* one iteration of the line loop of _stream_arena_request: what is yielded
\* for the line (a sequence of zero or one frame) and whether the loop breaks
StreamLineStep(line, rid, mdl) ==
    IF StartsWith(line, DataPrefix)
    THEN LET data == SubSeq(line, 7, Len(line))
         IN  IF data = DoneSentinel
             THEN [yield |-> <<DoneFrame>>, break |-> TRUE]
             ELSE LET chunk == _process_arena_sse_data(data, rid, mdl)
                  IN  IF chunk # NoneObj
                      THEN [yield |-> <<SseFrame(chunk)>>, break |-> FALSE]
                      ELSE [yield |-> <<>>, break |-> FALSE]
    ELSE [yield |-> <<>>, break |-> FALSE]

----------------------------------------------------------------------------
(* client.py: the unary Response Translator's token estimate *)

Max(a, b) == IF a >= b THEN a ELSE b

\* len(text) // 4
_estimate_tokens_NoFloor(t) == Len(t) \div 4

\* max(1, len(text) // 4)
_estimate_tokens(t) == Max(1, Len(t) \div 4)

----------------------------------------------------------------------------
(* client.py: the Request Translator *)

\* "".join(text_parts)
RECURSIVE JoinNewline_NoSeparator(_)
JoinNewline_NoSeparator(text_parts) ==
    IF text_parts = <<>> THEN <<>>
    ELSE text_parts[1] \o JoinNewline_NoSeparator(Tail(text_parts))

\* "\n".join(text_parts)
RECURSIVE JoinNewline(_)
JoinNewline(text_parts) ==
    IF text_parts = <<>> THEN <<>>
    ELSE IF Len(text_parts) = 1 THEN text_parts[1]
    ELSE text_parts[1] \o <<"\n">> \o JoinNewline(Tail(text_parts))

\* the loop over the parts of a content array: the texts of the parts that
\* are dicts with type "text", part.get("text", "") for each
RECURSIVE TextParts(_)
TextParts(parts) ==
    IF parts = <<>> THEN <<>>
    ELSE LET part == Head(parts)
         IN  IF part.isdict /\ "type" \in part.keys /\ part.type = "text"
             THEN << IF "text" \in part.keys THEN part.text ELSE <<>> >>
                      \o TextParts(Tail(parts))
             ELSE TextParts(Tail(parts))

\* the content of a turn: a list is flattened, anything else is kept
FlattenContent(content) ==
    IF content.type = "list" THEN JoinNewline(TextParts(content.parts))
    ELSE content.text

\* the role copied as it is
TurnRole_Copy(role) == role

\* role rewritten for the provider, which has no system role
TurnRole(role) == IF role = "system" THEN "user" ELSE role

\* one Conversation Turn
ArenaMessage(id, role, content, parent_ids, msg_model_id, evaluation_id) ==
    [id |-> id, role |-> role, content |-> content,
     experimental_attachments |-> <<>>, parentMessageIds |-> parent_ids,
     participantPosition |-> "a", modelId |-> msg_model_id,
     evaluationSessionId |-> evaluation_id, status |-> "pending",
     failureReason |-> NoneStr]

\* the assistant turn appended without a parent
AssistantMessage_NoParent(assistant_message_id, message_ids, model_id, evaluation_id) ==
    ArenaMessage(assistant_message_id, "assistant", <<>>, <<>>, model_id, evaluation_id)

\* the assistant turn appended for the response
AssistantMessage(assistant_message_id, message_ids, model_id, evaluation_id) ==
    ArenaMessage(assistant_message_id, "assistant", <<>>,
                 IF message_ids # <<>> THEN <<message_ids[Len(message_ids)]>>
                 ELSE <<>>,
                 model_id, evaluation_id)

KeyError(key) == [ok |-> FALSE, exc |-> "KeyError", msg |-> <<"'", key, "'">>]

\* the parent of message i taken to be message i itself
ParentIds_Self(message_ids, i) == IF i > 1 THEN <<message_ids[i]>> ELSE <<>>

\* the parent list of message i (counted from 1), its own id being already
\* appended to message_ids
ParentIds(message_ids, i) == IF i > 1 THEN <<message_ids[i - 1]>> ELSE <<>>

\* the loop over the input messages from message i on; u counts the uuid4()
\* values drawn so far, the next one drawn being u + 1
RECURSIVE ConvertMessages(_, _, _, _, _, _, _)
ConvertMessages(msgs, i, evaluation_id, model_id, u, arena_messages, message_ids) ==
    IF i > Len(msgs)
    THEN [ok |-> TRUE, arena_messages |-> arena_messages,
          message_ids |-> message_ids, u |-> u]
    ELSE LET msg == msgs[i]
             message_id == u + 1
             ids == Append(message_ids, message_id)
         IN  IF "content" \notin msg.keys THEN KeyError("content")
             ELSE IF "role" \notin msg.keys THEN KeyError("role")
             ELSE LET content == FlattenContent(msg.content)
                      parent_ids == ParentIds(ids, i)
                      msg_model_id == IF msg.role = "assistant" THEN model_id
                                      ELSE NoneStr
                      role == TurnRole(msg.role)
                  IN  ConvertMessages(msgs, i + 1, evaluation_id, model_id, u + 1,
                          Append(arena_messages,
                                 ArenaMessage(message_id, role, content, parent_ids,
                                              msg_model_id, evaluation_id)),
                          ids)

\* _convert_to_arena_format with u uuid4() values drawn before the call:
\* the Evaluation Session and the new count of uuids, or the exception raised
_convert_to_arena_format(openai_request, modality, u) ==
    IF "model" \notin openai_request.keys THEN KeyError("model")
    ELSE
    LET evaluation_id == u + 1
        model_id == get_model_id(openai_request.model)
        msgs == IF "messages" \in openai_request.keys THEN openai_request.messages
                ELSE <<>>
        loop == ConvertMessages(msgs, 1, evaluation_id, model_id, u + 1, <<>>, <<>>)
    IN  IF ~loop.ok THEN loop
        ELSE LET message_ids == loop.message_ids
                 assistant_message_id == loop.u + 1
                 arena_messages ==
                     Append(loop.arena_messages,
                            AssistantMessage(assistant_message_id, message_ids,
                                             model_id, evaluation_id))
             IN  [ok |-> TRUE,
                  u |-> loop.u + 1,
                  value |->
                    [id |-> evaluation_id, mode |-> "direct", modelAId |-> model_id,
                     userMessageId |-> IF message_ids # <<>>
                                       THEN message_ids[Len(message_ids)]
                                       ELSE assistant_message_id,
                     modelAMessageId |-> assistant_message_id,
                     messages |-> arena_messages,
                     modality |-> modality]]

----------------------------------------------------------------------------
(* Inputs: inbound requests *)

HeaderNames == {"X-LA-Cookie", "LA-Cookie", "X-CF-Clearance", "CF-Clearance",
                "User-Agent"}

NoHeaders == [h \in HeaderNames |-> NoneStr]

\* the header sets a request may carry; NoneStr is an absent header
AuthedHeaders ==
    {[NoHeaders EXCEPT !["X-LA-Cookie"] = "la", !["X-CF-Clearance"] = "cf"],
     [NoHeaders EXCEPT !["LA-Cookie"] = "la", !["CF-Clearance"] = "cf",
                       !["User-Agent"] = "curl"]}

UnauthedHeaders ==
    {NoHeaders,
     [NoHeaders EXCEPT !["X-LA-Cookie"] = "la"],
     [NoHeaders EXCEPT !["CF-Clearance"] = "cf"],
     [NoHeaders EXCEPT !["X-LA-Cookie"] = "", !["X-CF-Clearance"] = "cf"]}

StrContent(t) == [type |-> "str", text |-> t, parts |-> <<>>]
ListContent(ps) == [type |-> "list", text |-> <<>>, parts |-> ps]

TextPart(t) == [isdict |-> TRUE, keys |-> {"type", "text"}, type |-> "text", text |-> t]
ImagePart == [isdict |-> TRUE, keys |-> {"type", "image_url"}, type |-> "image_url",
              text |-> <<>>]

Message(role, content) == [keys |-> {"role", "content"}, role |-> role, content |-> content]

\* a message without a "content" key
MessageNoContent(role) == [keys |-> {"role"}, role |-> role, content |-> StrContent(<<>>)]

MsgsHi == << Message("user", StrContent(<<"h", "i">>)) >>
MsgsSystemParts ==
    << Message("system", StrContent(<<"s">>)),
       Message("user", ListContent(<<TextPart(<<"a">>), ImagePart, TextPart(<<"b">>)>>)) >>
MsgsMalformed == << MessageNoContent("user") >>

BodyModels == {"gpt-4o-latest", "gpt-4", "bogus", NoneStr}

\* a chat body: keys are the keys present; messages_is_list is
\* isinstance(body["messages"], list)
ChatBody(keys, m, is_list, msgs, stream) ==
    [valid_json |-> TRUE, keys |-> keys, model |-> m, messages_is_list |-> is_list,
     messages |-> msgs, stream |-> stream, prompt |-> <<>>]

InvalidJsonBody ==
    [valid_json |-> FALSE, keys |-> {}, model |-> NoneStr, messages_is_list |-> FALSE,
     messages |-> <<>>, stream |-> FALSE, prompt |-> <<>>]

AllKeys == {"model", "messages", "stream"}

UnaryBodies ==
    {ChatBody(AllKeys, m, TRUE, ms, FALSE) :
        m \in BodyModels, ms \in {<<>>, MsgsHi, MsgsSystemParts, MsgsMalformed}}
    \cup {ChatBody({"model", "messages"}, "gpt-4", TRUE, MsgsHi, FALSE),
          ChatBody({"messages"}, NoneStr, TRUE, MsgsHi, FALSE),
          ChatBody({"model"}, "gpt-4", FALSE, <<>>, FALSE),
          ChatBody(AllKeys, "gpt-4", FALSE, <<>>, FALSE),
          InvalidJsonBody}

StreamBodies ==
    {ChatBody(AllKeys, "gpt-4o-latest", TRUE, MsgsHi, TRUE),
     ChatBody(AllKeys, "gpt-4", TRUE, MsgsSystemParts, TRUE),
     ChatBody(AllKeys, "bogus", TRUE, MsgsHi, TRUE),
     ChatBody(AllKeys, NoneStr, TRUE, <<>>, TRUE),
     ChatBody(AllKeys, "gpt-4o-latest", TRUE, MsgsMalformed, TRUE),
     ChatBody({"messages", "stream"}, NoneStr, TRUE, MsgsHi, TRUE),
     ChatBody(AllKeys, "gpt-4", FALSE, <<>>, TRUE)}

\* an image body: {"prompt": ..., "model": ...} with the keys present
ImageBody(keys, m, prompt) ==
    [valid_json |-> TRUE, keys |-> keys, model |-> m, messages_is_list |-> FALSE,
     messages |-> <<>>, stream |-> FALSE, prompt |-> prompt]

ImageBodies ==
    {ImageBody({"prompt", "model"}, "dall-e-3", <<"c", "a", "t">>),
     ImageBody({"prompt", "model"}, "bogus", <<"c", "a", "t">>),
     ImageBody({"prompt"}, NoneStr, <<"c", "a", "t">>),
     ImageBody({"model"}, "dall-e-3", <<>>),
     InvalidJsonBody}

\* GET /v1/models carries no body: request.json() is never called on it
ModelsRequests ==
    {[endpoint |-> "models", headers |-> h, body |-> InvalidJsonBody] :
        h \in AuthedHeaders \cup UnauthedHeaders}

ImageRequests ==
    {[endpoint |-> "images", headers |-> h, body |-> b] :
        h \in AuthedHeaders \cup UnauthedHeaders, b \in ImageBodies}

Requests ==
    ModelsRequests \cup ImageRequests
    \cup
    {[endpoint |-> "chat", headers |-> h, body |-> b] :
        h \in AuthedHeaders \cup UnauthedHeaders, b \in UnaryBodies}
    \cup {[endpoint |-> "chat", headers |-> h, body |-> b] :
        h \in {NoHeaders, [NoHeaders EXCEPT !["X-LA-Cookie"] = "la",
                                            !["X-CF-Clearance"] = "cf"]},
        b \in StreamBodies}

----------------------------------------------------------------------------
(* Inputs: what the provider sends *)

\* the lines of the provider's event stream
LineHi == DataPrefix \o <<"a", "0", ":", Quote, "H", "i", Quote>>
LineRaw == DataPrefix \o <<"a", "0", ":", "H", ":", "i">>
LineEscaped == DataPrefix \o <<"a", "0", ":", Quote, "a", Backslash, Quote, "b",
                               Backslash, "n", Quote>>
LineAe == DataPrefix \o <<"a", "e", ":">>
LineAd == DataPrefix \o <<"a", "d", ":", "{", "}">>
LineDone == DataPrefix \o DoneSentinel
LineUnknownPrefix == DataPrefix \o <<"z", "z", ":", "g">>
LineNoColon == DataPrefix \o <<"p", "i", "n", "g">>
LineNotData == <<"a", "0", ":", Quote, "H", "i", Quote>>
LineBadJson == DataPrefix \o <<"a", "0", ":", Quote, "a", Quote, "b", Quote>>

ProviderLines == {LineHi, LineRaw, LineEscaped, LineAe, LineAd, LineDone,
                  LineUnknownPrefix, LineNoColon, LineNotData, LineBadJson}

\* the outcomes of opening the stream: a 2xx status, a non-2xx status
\* (raise_for_status raises), or no connection at all
HTTPStatusError == [exc |-> "HTTPStatusError", msg |-> <<"Server error '503'">>]
ConnectError == [exc |-> "ConnectError", msg |-> <<"All connection attempts failed">>]
ReadError == [exc |-> "ReadError", msg |-> <<"peer closed connection">>]

\* the outcomes of the unary POST
UnaryOutcomes ==
    {[kind |-> "json", is_dict |-> TRUE, keys |-> {"content"}, content |-> <<"O", "K">>],
     [kind |-> "json", is_dict |-> TRUE, keys |-> {}, content |-> <<>>],
     [kind |-> "json", is_dict |-> FALSE, keys |-> {}, content |-> <<>>],
     [kind |-> "not_json", is_dict |-> FALSE, keys |-> {}, content |-> <<>>],
     [kind |-> "http_error", is_dict |-> FALSE, keys |-> {}, content |-> <<>>],
     [kind |-> "connect_error", is_dict |-> FALSE, keys |-> {}, content |-> <<>>]}

----------------------------------------------------------------------------
(* main.py: the HTTP boundary *)

Truthy(v) == v \notin {NoneStr, ""}

\* Python's "a or b"
Or(a, b) == IF Truthy(a) THEN a ELSE b

ErrorBody(message, type, code) ==
    [error |-> [message |-> message, type |-> type, code |-> code]]

HttpResponse(status, body) == [status |-> status, body |-> body]

InternalError == HttpResponse(500, ErrorBody("Internal server error", "server_error",
                                             "internal_error"))

Init ==
    /\ request \in Requests
    /\ pc = "auth"
    /\ auth_context = NoneObj
    /\ arena_request = NoneObj
    /\ uuids = 0
    /\ now = 0
    /\ calls = 0
    /\ conn = "none"
    /\ response_id = NoneObj
    /\ model = NoneStr
    /\ lines = <<>>
    /\ out = <<>>
    /\ failure = NoneObj
    /\ response = NoneObj
    /\ text = <<>>
    /\ tokens = 0
    /\ first_session = NoneObj
    /\ response_data = NoneObj

\* the cookie test rejecting only a request that carries neither value
MissingCookies_Both(la_cookie, cf_clearance) ==
    ~Truthy(la_cookie) /\ ~Truthy(cf_clearance)

\* "not la_cookie or not cf_clearance"
MissingCookies(la_cookie, cf_clearance) ==
    ~Truthy(la_cookie) \/ ~Truthy(cf_clearance)

\* get_auth_context, the dependency every /v1 handler runs first
get_auth_context ==
    /\ pc = "auth"
    /\ LET la_cookie == Or(request.headers["X-LA-Cookie"], request.headers["LA-Cookie"])
           cf_clearance == Or(request.headers["X-CF-Clearance"],
                              request.headers["CF-Clearance"])
       IN  IF MissingCookies(la_cookie, cf_clearance)
           THEN /\ response' = HttpResponse(401,
                        ErrorBody("Missing authentication cookies",
                                  "authentication_error", "missing_cookies"))
                /\ pc' = "done"
                /\ UNCHANGED auth_context
           ELSE /\ auth_context' =
                        [la_cookie |-> la_cookie, cf_clearance |-> cf_clearance,
                         user_agent |->
                            IF request.headers["User-Agent"] # NoneStr
                            THEN request.headers["User-Agent"]
                            ELSE "OpenRouter-Alternative/1.0"]
                /\ pc' = "handler"
                /\ UNCHANGED response
    /\ UNCHANGED <<request, arena_request, uuids, now, calls, conn, response_id,
                   model, lines, out, failure, text, tokens,
                   first_session, response_data>>

\* chat_completions up to its first await on the provider: the body checks,
\* then either the StreamingResponse (status 200 is committed, the generator
\* has not run yet) or chat_completion up to the POST it issues
chat_completions ==
    /\ pc = "handler"
    /\ request.endpoint = "chat"
    /\ LET body == request.body IN
       IF ~body.valid_json
       THEN /\ response' = InternalError
            /\ pc' = "done"
            /\ UNCHANGED <<arena_request, uuids, calls>>
       ELSE IF "model" \notin body.keys
       THEN /\ response' = HttpResponse(400,
                    ErrorBody("Missing required field: model",
                              "invalid_request_error", "missing_model"))
            /\ pc' = "done"
            /\ UNCHANGED <<arena_request, uuids, calls>>
       ELSE IF "messages" \notin body.keys \/ ~body.messages_is_list
       THEN /\ response' = HttpResponse(400,
                    ErrorBody("Missing or invalid required field: messages",
                              "invalid_request_error", "invalid_messages"))
            /\ pc' = "done"
            /\ UNCHANGED <<arena_request, uuids, calls>>
       ELSE IF "stream" \in body.keys /\ body.stream
       THEN /\ response' = HttpResponse(200, [media_type |-> "text/event-stream"])
            /\ pc' = "stream_pending"
            /\ UNCHANGED <<arena_request, uuids, calls>>
       ELSE \* arena_client.chat_completion(body, auth_context)
            IF ~is_model_supported(body.model)
            THEN \* ValueError, re-raised, caught by "except Exception"
                 /\ response' = InternalError
                 /\ pc' = "done"
                 /\ UNCHANGED <<arena_request, uuids, calls>>
            ELSE LET conv == _convert_to_arena_format(body, "chat", uuids)
                 IN  IF ~conv.ok
                     THEN /\ response' = InternalError
                          /\ pc' = "done"
                          /\ UNCHANGED <<arena_request, uuids, calls>>
                     ELSE /\ arena_request' = conv.value
                          /\ uuids' = conv.u
                          /\ calls' = calls + 1
                          /\ pc' = "unary_await"
                          /\ UNCHANGED response
    /\ UNCHANGED <<request, auth_context, now, conn, response_id, model, lines, out,
                   failure, text, tokens, first_session, response_data>>

\* _convert_to_openai_format at time t; usage.prompt_tokens is estimated from
\* the Python repr of the message list, which is not modelled
_convert_to_openai_format(arena_response, original_request, t) ==
    LET content == IF "content" \in arena_response.keys THEN arena_response.content
                   ELSE <<>>
    IN  [id |-> ChatCmplId(t), object |-> "chat.completion",
         model |-> IF "model" \in original_request.keys THEN original_request.model
                   ELSE "unknown",
         choices |-> << [index |-> 0,
                         message |-> [role |-> "assistant", content |-> content],
                         finish_reason |-> "stop"] >>,
         usage |-> [completion_tokens |-> _estimate_tokens(content)]]

\* the provider answers the unary POST: _make_arena_request returns or raises,
\* then the response is translated
UnaryProviderResponds ==
    /\ pc = "unary_await"
    /\ \E o \in UnaryOutcomes, t \in now..MaxTime :
          /\ response_data' = o
          /\ IF o.kind = "json" /\ o.is_dict
             THEN /\ response' = HttpResponse(200,
                          _convert_to_openai_format(o, request.body, t))
                  /\ now' = t
             ELSE /\ response' = InternalError
                  /\ UNCHANGED now
    /\ pc' = "done"
    /\ UNCHANGED <<request, auth_context, arena_request, uuids, calls, conn,
                   response_id, model, lines, out, failure, text, tokens,
                   first_session>>

\* list_models: get_models returns the configured list, every entry a string
list_models ==
    /\ pc = "handler"
    /\ request.endpoint = "models"
    /\ response' = HttpResponse(200,
            [object |-> "list",
             data |-> {[id |-> m, object |-> "model", created |-> 1677610602,
                        owned_by |-> "openrouter-alternative"] :
                            m \in supported_models}])
    /\ pc' = "done"
    /\ UNCHANGED <<request, auth_context, arena_request, uuids, now, calls, conn,
                   response_id, model, lines, out, failure, text, tokens,
                   first_session, response_data>>

\* the one-message chat request image_generation builds from the body
ImageChatRequest(request_body) ==
    ChatBody(AllKeys,
             IF "model" \in request_body.keys THEN request_body.model
             ELSE "dall-e-3",
             TRUE, << Message("user", StrContent(request_body.prompt)) >>, FALSE)

\* image_generations up to the POST that image_generation issues
image_generations ==
    /\ pc = "handler"
    /\ request.endpoint = "images"
    /\ LET body == request.body IN
       IF ~body.valid_json
       THEN /\ response' = InternalError
            /\ pc' = "done"
            /\ UNCHANGED <<arena_request, uuids, calls>>
       ELSE IF "prompt" \notin body.keys
       THEN /\ response' = HttpResponse(400,
                    ErrorBody("Missing required field: prompt",
                              "invalid_request_error", "missing_prompt"))
            /\ pc' = "done"
            /\ UNCHANGED <<arena_request, uuids, calls>>
       ELSE \* arena_client.image_generation(body, auth_context)
            LET conv == _convert_to_arena_format(ImageChatRequest(body), "image",
                                                 uuids)
            IN  IF ~conv.ok
                THEN /\ response' = InternalError
                     /\ pc' = "done"
                     /\ UNCHANGED <<arena_request, uuids, calls>>
                ELSE /\ arena_request' = conv.value
                     /\ uuids' = conv.u
                     /\ calls' = calls + 1
                     /\ pc' = "image_await"
                     /\ UNCHANGED response
    /\ UNCHANGED <<request, auth_context, now, conn, response_id, model, lines, out,
                   failure, text, tokens, first_session, response_data>>

\* _extract_image_urls: no url whatever the provider answered
_extract_image_urls(arena_response) == <<>>

\* the provider answers the POST of image_generation: _make_arena_request
\* returns whatever JSON value the body holds, or raises
ImageProviderResponds ==
    /\ pc = "image_await"
    /\ \E o \in UnaryOutcomes, t \in now..MaxTime :
          /\ response_data' = o
          /\ IF o.kind = "json"
             THEN /\ response' = HttpResponse(200,
                          [created |-> t,
                           data |-> [i \in 1..Len(_extract_image_urls(o)) |->
                                        [url |-> _extract_image_urls(o)[i],
                                         revised_prompt |-> request.body.prompt]]])
                  /\ now' = t
             ELSE /\ response' = InternalError
                  /\ UNCHANGED now
    /\ pc' = "done"
    /\ UNCHANGED <<request, auth_context, arena_request, uuids, calls, conn,
                   response_id, model, lines, out, failure, text, tokens,
                   first_session>>

----------------------------------------------------------------------------
(* client.py: stream_chat_completion, an async generator.  It runs when the  *)
(* consumer asks for the next item and is suspended at each yield; pc names  *)
(* the await or the yield it is suspended at.                                *)

ValueError(m) == [exc |-> "ValueError", msg |-> <<"Unsupported model: ", m>>]

\* the "except Exception" handler of stream_chat_completion up to its first
\* yield: the error chunk is built at time t and yielded
HandleStreamError(e, t) ==
    /\ failure' = e
    /\ now' = t
    /\ out' = Append(out, SseFrame(_create_error_chunk(e.msg, t)))
    /\ pc' = "yield_error"

\* the consumer asks for the first item: the generator validates the model,
\* builds the session and opens the provider stream
StreamBegin ==
    /\ pc = "stream_pending"
    /\ LET body == request.body IN
       IF ~is_model_supported(body.model)
       THEN /\ \E t \in now..MaxTime : HandleStreamError(ValueError(body.model), t)
            /\ UNCHANGED <<arena_request, uuids, calls, conn>>
       ELSE LET conv == _convert_to_arena_format(body, "chat", uuids)
            IN  IF ~conv.ok
                THEN /\ \E t \in now..MaxTime :
                            HandleStreamError([exc |-> conv.exc, msg |-> conv.msg], t)
                     /\ UNCHANGED <<arena_request, uuids, calls, conn>>
                ELSE /\ arena_request' = conv.value
                     /\ uuids' = conv.u
                     /\ calls' = calls + 1
                     /\ conn' = "connecting"
                     /\ pc' = "stream_await"
                     /\ UNCHANGED <<now, out, failure>>
    /\ UNCHANGED <<request, auth_context, response_id, model, lines, response,
                   text, tokens, first_session, response_data>>

\* the provider answers with a 2xx status: the response id and the model name
\* of the stream are fixed
StreamOpened ==
    /\ pc = "stream_await"
    /\ \E t \in now..MaxTime :
          /\ now' = t
          /\ response_id' = ChatCmplId(t)
    /\ model' = arena_request.modelAId
    /\ conn' = "open"
    /\ pc' = "reading"
    /\ UNCHANGED <<request, auth_context, arena_request, uuids, calls, lines, out,
                   failure, response, text, tokens, first_session, response_data>>

\* the provider answers with a non-2xx status (raise_for_status raises inside
\* the "async with", which closes the response) or cannot be reached
StreamRefused ==
    /\ pc = "stream_await"
    /\ \E e \in {HTTPStatusError, ConnectError}, t \in now..MaxTime :
          HandleStreamError(e, t)
    /\ conn' = "closed"
    /\ UNCHANGED <<request, auth_context, arena_request, uuids, calls, response_id,
                   model, lines, response, text, tokens,
                   first_session, response_data>>

\* aiter_lines() delivers a line: one iteration of the loop
StreamLine ==
    /\ pc = "reading"
    /\ Len(lines) < MaxLines
    /\ \E line \in ProviderLines :
          LET step == StreamLineStep(line, response_id, model)
          IN  /\ lines' = Append(lines, line)
              /\ out' = out \o step.yield
              /\ pc' = IF step.break THEN "yield_done"
                       ELSE IF step.yield # <<>> THEN "yield_chunk"
                       ELSE "reading"
    /\ UNCHANGED <<request, auth_context, arena_request, uuids, now, calls, conn,
                   response_id, model, failure, response, text, tokens,
                   first_session, response_data>>

\* the provider ends the body: the loop and the "async with" are left and
\* the generator returns
StreamEof ==
    /\ pc = "reading"
    /\ conn' = "closed"
    /\ pc' = "done"
    /\ UNCHANGED <<request, auth_context, arena_request, uuids, now, calls,
                   response_id, model, lines, out, failure, response, text, tokens,
                   first_session, response_data>>

\* reading the body fails (timeout, reset): the exception leaves the
\* "async with" and reaches the handler of stream_chat_completion
StreamReadError ==
    /\ pc = "reading"
    /\ \E t \in now..MaxTime : HandleStreamError(ReadError, t)
    /\ conn' = "closed"
    /\ UNCHANGED <<request, auth_context, arena_request, uuids, calls, response_id,
                   model, lines, response, text, tokens,
                   first_session, response_data>>

\* the consumer asks for the next item after a chunk: the loop goes on
ResumeAfterChunk ==
    /\ pc = "yield_chunk"
    /\ pc' = "reading"
    /\ UNCHANGED <<request, auth_context, arena_request, uuids, now, calls, conn,
                   response_id, model, lines, out, failure, response, text, tokens,
                   first_session, response_data>>

\* ... after the terminator: break, the "async with" is left, the generator
\* returns
ResumeAfterDone ==
    /\ pc = "yield_done"
    /\ conn' = "closed"
    /\ pc' = "done"
    /\ UNCHANGED <<request, auth_context, arena_request, uuids, now, calls,
                   response_id, model, lines, out, failure, response, text, tokens,
                   first_session, response_data>>

\* the handler returning after the error chunk, without the terminator
ResumeAfterError_NoDone ==
    /\ pc = "yield_error"
    /\ pc' = "yield_final"
    /\ UNCHANGED <<request, auth_context, arena_request, uuids, now, calls, conn,
                   response_id, model, lines, out, failure, response, text, tokens,
                   first_session, response_data>>

\* ... after the error chunk: the terminator is yielded
ResumeAfterError ==
    /\ pc = "yield_error"
    /\ out' = Append(out, DoneFrame)
    /\ pc' = "yield_final"
    /\ UNCHANGED <<request, auth_context, arena_request, uuids, now, calls, conn,
                   response_id, model, lines, failure, response, text, tokens,
                   first_session, response_data>>

\* ... after the terminator that follows the error chunk: the generator returns
ResumeAfterFinal ==
    /\ pc = "yield_final"
    /\ pc' = "done"
    /\ UNCHANGED <<request, auth_context, arena_request, uuids, now, calls, conn,
                   response_id, model, lines, out, failure, response, text, tokens,
                   first_session, response_data>>

\* the consumer's task is cancelled (client disconnect) while the generator
\* awaits the provider: CancelledError is raised at the await, "except
\* Exception" does not catch it, and the "async with" closes the response
ConsumerCancelled ==
    /\ pc \in {"stream_await", "reading"}
    /\ conn' = "closed"
    /\ pc' = "cancelled"
    /\ UNCHANGED <<request, auth_context, arena_request, uuids, now, calls,
                   response_id, model, lines, out, failure, response, text, tokens,
                   first_session, response_data>>

\* the consumer stops asking for items while the generator is suspended at a
\* yield (or before it first ran): no code of the generator runs
ConsumerGone ==
    /\ pc \in {"stream_pending", "yield_chunk", "yield_done", "yield_error",
               "yield_final"}
    /\ pc' = "abandoned"
    /\ UNCHANGED <<request, auth_context, arena_request, uuids, now, calls, conn,
                   response_id, model, lines, out, failure, response, text, tokens,
                   first_session, response_data>>

\* the interpreter finalizes the abandoned generators: GeneratorExit is raised
\* at the yield of _stream_arena_request and its "async with" is left
GeneratorFinalized ==
    /\ pc = "abandoned"
    /\ conn' = IF conn = "open" THEN "closed" ELSE conn
    /\ pc' = "finalized"
    /\ UNCHANGED <<request, auth_context, arena_request, uuids, now, calls,
                   response_id, model, lines, out, failure, response, text, tokens,
                   first_session, response_data>>

Next ==
    \/ get_auth_context
    \/ chat_completions
    \/ UnaryProviderResponds
    \/ list_models
    \/ image_generations
    \/ ImageProviderResponds
    \/ StreamBegin
    \/ StreamOpened
    \/ StreamRefused
    \/ StreamLine
    \/ StreamEof
    \/ StreamReadError
    \/ ResumeAfterChunk
    \/ ResumeAfterDone
    \/ ResumeAfterError
    \/ ResumeAfterFinal
    \/ ConsumerCancelled
    \/ ConsumerGone
    \/ GeneratorFinalized

Spec == Init /\ [][Next]_vars

----------------------------------------------------------------------------
(* The Request Translator on its own: _convert_to_arena_format applied to   *)
(* bounded OpenAI requests                                                  *)

SeqsUpTo(S, n) == UNION {[1..k -> S] : k \in 0..n}

\* a dict part tagged text without a "text" key, a dict part without a
\* "type" key, and a part that is not a dict
TextPartNoText == [isdict |-> TRUE, keys |-> {"type"}, type |-> "text", text |-> <<>>]
UntypedPart == [isdict |-> TRUE, keys |-> {"text"}, type |-> NoneStr, text |-> <<"u">>]
NonDictPart == [isdict |-> FALSE, keys |-> {}, type |-> NoneStr, text |-> <<>>]

ConvParts == {TextPart(<<"a">>), TextPart(<<"b", "c">>), TextPart(<<>>), ImagePart,
              TextPartNoText, UntypedPart, NonDictPart}

ConvRoles == {"system", "user", "assistant", "tool"}

ConvMessages ==
    {Message(r, c) : r \in ConvRoles,
                     c \in {StrContent(<<>>), StrContent(<<"h", "i">>),
                            ListContent(<<TextPart(<<"a">>), ImagePart,
                                          TextPart(<<"b">>)>>)}}
    \cup {MessageNoContent("user")}

ConvertRequests ==
    {ChatBody(AllKeys, "gpt-4", TRUE, ms, FALSE) : ms \in SeqsUpTo(ConvMessages, MaxMsgs)}
    \cup {ChatBody(AllKeys, "gpt-4", TRUE, << Message(r, ListContent(ps)) >>, FALSE) :
            r \in {"user", "system"}, ps \in SeqsUpTo(ConvParts, MaxParts)}

InitConvert ==
    /\ request \in {[endpoint |-> "convert", headers |-> NoHeaders, body |-> b] :
                        b \in ConvertRequests}
    /\ pc = "convert"
    /\ auth_context = NoneObj
    /\ arena_request = NoneObj
    /\ uuids = 0
    /\ now = 0
    /\ calls = 0
    /\ conn = "none"
    /\ response_id = NoneObj
    /\ model = NoneStr
    /\ lines = <<>>
    /\ out = <<>>
    /\ failure = NoneObj
    /\ response = NoneObj
    /\ text = <<>>
    /\ tokens = 0
    /\ first_session = NoneObj
    /\ response_data = NoneObj

\* one call of _convert_to_arena_format: the session it returns or the
\* exception it raises
Convert ==
    /\ pc = "convert"
    /\ LET conv == _convert_to_arena_format(request.body, "chat", uuids)
       IN  IF conv.ok
           THEN /\ arena_request' = conv.value
                /\ uuids' = conv.u
                /\ pc' = "converted"
                /\ UNCHANGED failure
           ELSE /\ failure' = [exc |-> conv.exc, msg |-> conv.msg]
                /\ pc' = "raised"
                /\ UNCHANGED <<arena_request, uuids>>
    /\ UNCHANGED <<request, auth_context, now, calls, conn, response_id, model,
                   lines, out, response, text, tokens, first_session, response_data>>

\* the same request translated a second time with the same client, drawing
\* its identifiers again from the first uuid4() value
ConvertAgain_SameIds ==
    /\ pc = "converted"
    /\ LET conv == _convert_to_arena_format(request.body, "chat", 0)
       IN  /\ conv.ok
           /\ first_session' = arena_request
           /\ arena_request' = conv.value
           /\ uuids' = conv.u
    /\ pc' = "converted_again"
    /\ UNCHANGED <<request, auth_context, now, calls, conn, response_id, model,
                   lines, out, failure, response, text, tokens,
                   response_data>>

\* a second call of _convert_to_arena_format on the same request: every
\* uuid4() it draws is a new one
ConvertAgain ==
    /\ pc = "converted"
    /\ LET conv == _convert_to_arena_format(request.body, "chat", uuids)
       IN  /\ conv.ok
           /\ first_session' = arena_request
           /\ arena_request' = conv.value
           /\ uuids' = conv.u
    /\ pc' = "converted_again"
    /\ UNCHANGED <<request, auth_context, now, calls, conn, response_id, model,
                   lines, out, failure, response, text, tokens,
                   response_data>>

NextConvert ==
    \/ Convert
    \/ ConvertAgain

SpecConvert == InitConvert /\ [][NextConvert]_vars

----------------------------------------------------------------------------
(* The token estimate on its own *)

InitTokens ==
    /\ text \in {[i \in 1..n |-> "x"] : n \in 0..MaxTextLen}
    /\ pc = "estimate"
    /\ request = NoneObj
    /\ auth_context = NoneObj
    /\ arena_request = NoneObj
    /\ uuids = 0
    /\ now = 0
    /\ calls = 0
    /\ conn = "none"
    /\ response_id = NoneObj
    /\ model = NoneStr
    /\ lines = <<>>
    /\ out = <<>>
    /\ failure = NoneObj
    /\ response = NoneObj
    /\ tokens = 0
    /\ first_session = NoneObj
    /\ response_data = NoneObj

EstimateTokens ==
    /\ pc = "estimate"
    /\ tokens' = _estimate_tokens(text)
    /\ pc' = "estimated"
    /\ UNCHANGED <<request, auth_context, arena_request, uuids, now, calls, conn,
                   response_id, model, lines, out, failure, response, text,
                   first_session, response_data>>

NextTokens == EstimateTokens

SpecTokens == InitTokens /\ [][NextTokens]_vars

----------------------------------------------------------------------------
(* Properties of the Stream Translator *)

\* the frames of out that _stream_arena_request yielded: all of out but the
\* error chunk and terminator that stream_chat_completion's handler adds
TranslatorOut ==
    IF failure = NoneObj THEN out
    ELSE IF out[Len(out)] = DoneFrame THEN SubSeq(out, 1, Len(out) - 2)
    ELSE SubSeq(out, 1, Len(out) - 1)

IsJsonFrame(frame) == "json" \in DOMAIN frame

\* what a frame says, apart from the response id and the model name
FrameShape(frame) ==
    IF IsJsonFrame(frame)
    THEN [delta |-> frame.json.choices[1].delta,
          finish_reason |-> frame.json.choices[1].finish_reason]
    ELSE [literal |-> frame.literal]

ContentShape(t) == [delta |-> [content |-> t, role |-> "assistant"],
                    finish_reason |-> NoneStr]
FinishShape == [delta |-> <<>>, finish_reason |-> "stop"]
DoneShape == [literal |-> "data: [DONE]\n\n"]

\* the text each a0 line of ProviderLines carries once decoded
DecodedText(line) ==
    CASE line = LineHi -> <<"H", "i">>
      [] line = LineRaw -> <<"H", ":", "i">>
      [] line = LineEscaped -> <<"a", Quote, "b", "\n">>

IsA0Line(line) == StartsWith(line, DataPrefix \o <<"a", "0", ":">>)
IsEndLine(line) == \/ StartsWith(line, DataPrefix \o <<"a", "e", ":">>)
                   \/ StartsWith(line, DataPrefix \o <<"a", "d", ":">>)

\* the output the translator owes for a line sequence: a content chunk per
\* a0 line whose body decodes, a finish chunk per ae/ad line, the terminator
\* at the first [DONE] line and nothing after it
RECURSIVE ExpectedShapes(_)
ExpectedShapes(ls) ==
    IF ls = <<>> THEN <<>>
    ELSE LET line == Head(ls)
         IN  IF line = LineDone THEN <<DoneShape>>
             ELSE IF IsA0Line(line) /\ line # LineBadJson
                  THEN <<ContentShape(DecodedText(line))>> \o ExpectedShapes(Tail(ls))
             ELSE IF IsEndLine(line)
                  THEN <<FinishShape>> \o ExpectedShapes(Tail(ls))
             ELSE ExpectedShapes(Tail(ls))

Shapes(frames) == [i \in 1..Len(frames) |-> FrameShape(frames[i])]

\* C1 (as amended): the translator's output is, in input order, one content
\* chunk with the decoded text per a0 line whose body decodes, one finish
\* chunk with empty delta per ae/ad line, and the terminator at the first
\* [DONE] line; no line is consumed after [DONE] and nothing more is emitted
C1_StreamTranslation ==
    /\ Shapes(TranslatorOut) = ExpectedShapes(lines)
    /\ \A i \in 1..(Len(lines) - 1) : lines[i] # LineDone
    /\ (lines # <<>> /\ lines[Len(lines)] = LineDone)
           => pc \in {"yield_done", "done", "abandoned", "finalized"}

\* the stream of the example: a0:"Hi", ae:, [DONE] gives three frames
C1_Witness ==
    /\ pc = "done"
    /\ lines = <<LineHi, LineAe, LineDone>>
    /\ Len(out) = 3
    /\ out[3] = DoneFrame

\* the kind of frame the claim as written expects for each line
RECURSIVE ClaimedKinds(_)
ClaimedKinds(ls) ==
    IF ls = <<>> THEN <<>>
    ELSE LET line == Head(ls)
         IN  IF line = LineDone THEN <<"done">>
             ELSE IF IsA0Line(line) THEN <<"content">> \o ClaimedKinds(Tail(ls))
             ELSE IF IsEndLine(line) THEN <<"finish">> \o ClaimedKinds(Tail(ls))
             ELSE ClaimedKinds(Tail(ls))

FrameKind(frame) ==
    IF ~IsJsonFrame(frame) THEN "done"
    ELSE IF frame.json.choices[1].delta = <<>> THEN "finish"
    ELSE "content"

\* C1 as written: one content chunk per a0 line, whatever its body
C1_OneChunkPerA0Line ==
    [i \in 1..Len(TranslatorOut) |-> FrameKind(TranslatorOut[i])] = ClaimedKinds(lines)

\* the frames the line loop yields for a whole line sequence
RECURSIVE TranslateLines(_, _, _)
TranslateLines(ls, rid, mdl) ==
    IF ls = <<>> THEN <<>>
    ELSE LET step == StreamLineStep(Head(ls), rid, mdl)
         IN  IF step.break THEN step.yield
             ELSE step.yield \o TranslateLines(Tail(ls), rid, mdl)

\* a line with no "data: " prefix, or whose payload has no ':' separator, or
\* whose prefix is not a0, ae or ad, or whose a0 body fails to decode
MalformedLine(line) ==
    \/ ~StartsWith(line, DataPrefix)
    \/ LET payload == SubSeq(line, 7, Len(line))
       IN  /\ payload # DoneSentinel
           /\ \/ ~Contains(payload, ":")
              \/ SplitOnce(payload, ":").prefix
                    \notin {<<"a", "0">>, <<"a", "e">>, <<"a", "d">>}
    \/ line = LineBadJson

WellFormedLine(line) == ~MalformedLine(line)

\* C9: a malformed line (unrecognized prefix, no ':' separator, no "data: "
\* prefix, undecodable a0 body) yields no frame and leaves the generator
\* reading, and the frames yielded are those of the line sequence without
\* its malformed lines
C9_MalformedLinesIgnored ==
    /\ [](TranslatorOut = TranslateLines(SelectSeq(lines, WellFormedLine),
                                         response_id, model))
    /\ [][(lines' # lines /\ MalformedLine(lines'[Len(lines')]))
            => (out' = out /\ pc' = "reading" /\ conn' = "open"
                /\ failure' = failure)]_vars

\* two malformed lines were consumed and the line after them gave its chunk
C9_Witness ==
    /\ pc = "yield_chunk"
    /\ lines = <<LineUnknownPrefix, LineBadJson, LineHi>>
    /\ Len(out) = 1
    /\ FrameShape(out[1]) = ContentShape(<<"H", "i">>)

----------------------------------------------------------------------------
(* Properties of the chat endpoint *)

IsStreaming == /\ request.endpoint = "chat"
               /\ pc \in {"stream_pending", "stream_await", "reading", "yield_chunk",
                          "yield_done", "yield_error", "yield_final"}
                  \/ (pc = "done" /\ response = HttpResponse(200,
                                        [media_type |-> "text/event-stream"]))

\* a synthetic error chunk: content "Error: ...", finish_reason "stop"
IsErrorFrame(frame) ==
    /\ IsJsonFrame(frame)
    /\ frame.json.choices[1].finish_reason = "stop"
    /\ frame.json.choices[1].delta # <<>>
    /\ StartsWith(frame.json.choices[1].delta.content, <<"Error: ">>)

CountFrames(P(_)) == Cardinality({i \in 1..Len(out) : P(out[i])})

IsDoneFrame(frame) == frame = DoneFrame

\* the model names of the request bodies that the registry does not serve
RejectedModels == {"bogus", NoneStr}

HasMalformedMessage ==
    \E i \in 1..Len(request.body.messages) : "content" \notin request.body.messages[i].keys

\* C2: a streaming response in which model validation, session construction
\* or the transport failed ends with exactly one error chunk carrying
\* "Error: <message>" and finish_reason "stop", immediately followed by
\* exactly one terminator; the HTTP status stays 200
C2_StreamFailureInBand ==
    (/\ IsStreaming
     /\ pc = "done"
     /\ \/ request.body.model \in RejectedModels
        \/ HasMalformedMessage
        \/ failure # NoneObj)
    => /\ failure # NoneObj
       /\ Len(out) >= 2
       /\ out[Len(out)] = DoneFrame
       /\ IsErrorFrame(out[Len(out) - 1])
       /\ out[Len(out) - 1].json.choices[1].delta.content = <<"Error: ">> \o failure.msg
       /\ CountFrames(IsErrorFrame) = 1
       /\ CountFrames(IsDoneFrame) = 1
       /\ response.status = 200

\* the transport failed after two chunks had been streamed
C2_Witness ==
    /\ pc = "done"
    /\ failure = ReadError
    /\ Len(out) = 4
    /\ out[4] = DoneFrame
    /\ IsErrorFrame(out[3])

\* C3: a chat request whose model the registry rejects issues no outbound
\* provider call, unary or streaming
C3_NoCallForUnsupportedModel ==
    (request.endpoint = "chat" /\ request.body.model \in RejectedModels)
    => (calls = 0 /\ conn = "none" /\ arena_request = NoneObj)

\* a streaming request for a rejected model ran to its end
C3_Witness ==
    /\ pc = "done"
    /\ IsStreaming
    /\ "model" \in request.body.keys
    /\ request.body.model = "bogus"
    /\ failure = ValueError("bogus")
    /\ calls = 0

IsErrorEnvelope(body) ==
    /\ DOMAIN body = {"error"}
    /\ DOMAIN body.error = {"message", "type", "code"}

\* C4: a unary chat request with the required fields and an unsupported
\* model is answered with a 4xx status and a structured error envelope
C4_UnsupportedModelIs4xx ==
    (/\ request.endpoint = "chat"
     /\ pc = "done"
     /\ auth_context # NoneObj
     /\ request.body.valid_json
     /\ {"model", "messages"} \subseteq request.body.keys
     /\ request.body.messages_is_list
     /\ ~request.body.stream
     /\ request.body.model \in RejectedModels)
    => (response.status \in 400..499 /\ IsErrorEnvelope(response.body))

\* C10: all JSON chunks of one streaming response carry the same response id
\* and the same model name
C10_OneIdAndModel ==
    \A i, j \in 1..Len(out) :
        (IsJsonFrame(out[i]) /\ IsJsonFrame(out[j]))
        => (out[i].json.id = out[j].json.id /\ out[i].json.model = out[j].json.model)

----------------------------------------------------------------------------
(* Properties of the Request Translator *)

InputMessages == request.body.messages
Turns == arena_request.messages

\* C5: for N >= 1 input messages the session has N + 1 turns, the last one
\* with role assistant, empty content and the id of turn N as only parent
C5_TurnCount ==
    (pc = "converted" /\ Len(InputMessages) >= 1)
    => LET N == Len(InputMessages)
       IN  /\ Len(Turns) = N + 1
           /\ Turns[N + 1].role = "assistant"
           /\ Turns[N + 1].content = <<>>
           /\ Turns[N + 1].parentMessageIds = <<Turns[N].id>>

\* two messages were translated into three turns
C5_Witness ==
    /\ pc = "converted"
    /\ Len(InputMessages) = 2
    /\ Len(Turns) = 3
    /\ Turns[3].parentMessageIds = <<Turns[2].id>>

\* C6: a system message becomes a user turn, every other role is copied, and
\* no turn of a session has role system
C6_NoSystemRole ==
    pc = "converted"
    => /\ \A i \in 1..Len(InputMessages) :
             Turns[i].role = IF InputMessages[i].role = "system" THEN "user"
                             ELSE InputMessages[i].role
       /\ \A i \in 1..Len(Turns) : Turns[i].role # "system"

\* a system message followed by another message was translated
C6_Witness ==
    /\ pc = "converted"
    /\ Len(InputMessages) = 2
    /\ InputMessages[1].role = "system"
    /\ Turns[1].role = "user"

IsTextPart(part) == part.isdict /\ "type" \in part.keys /\ part.type = "text"

PartText(part) == IF "text" \in part.keys THEN part.text ELSE <<>>

\* the texts joined by newlines, built from the last text backwards
RECURSIVE JoinedFromEnd(_)
JoinedFromEnd(ts) ==
    IF ts = <<>> THEN <<>>
    ELSE IF Len(ts) = 1 THEN ts[1]
    ELSE JoinedFromEnd(SubSeq(ts, 1, Len(ts) - 1)) \o <<"\n">> \o ts[Len(ts)]

ExpectedContent(parts) ==
    LET tagged == SelectSeq(parts, IsTextPart)
    IN  JoinedFromEnd([i \in 1..Len(tagged) |-> PartText(tagged[i])])

\* C7: a content array becomes the texts of its parts tagged text, in order,
\* joined by newlines; other parts add nothing; no text part gives ""
C7_TextPartsJoined ==
    pc = "converted"
    => \A i \in 1..Len(InputMessages) :
          InputMessages[i].content.type = "list"
          => /\ Turns[i].content = ExpectedContent(InputMessages[i].content.parts)
             /\ (\A k \in 1..Len(InputMessages[i].content.parts) :
                    ~IsTextPart(InputMessages[i].content.parts[k]))
                => Turns[i].content = <<>>

\* a text part, a non-text part and a second text part were flattened
C7_Witness ==
    /\ pc = "converted"
    /\ \E i \in 1..Len(InputMessages) :
          /\ InputMessages[i].content.type = "list"
          /\ InputMessages[i].content.parts
                = <<TextPart(<<"a">>), ImagePart, TextPart(<<"b">>)>>
          /\ Turns[i].content = <<"a", "\n", "b">>

----------------------------------------------------------------------------
(* Properties of the token estimate *)

\* C8 (as amended): the estimate is max(1, floor(n / 4)), so it is 1 for
\* every n below 8 and in particular for n = 0
C8_TokenEstimateFloor ==
    pc = "estimated"
    => LET n == Len(text)
       IN  /\ tokens >= 1
           /\ n < 4 => tokens = 1
           /\ n >= 4 => (4 * tokens <= n /\ n < 4 * tokens + 4)

\* a text of 7 characters was estimated at one token
C8_Witness == pc = "estimated" /\ Len(text) = 7 /\ tokens = 1

\* C8 as written: the estimate is max(1, ceil(n / 4))
C8_TokenEstimateCeil ==
    pc = "estimated" => tokens = Max(1, (Len(text) + 3) \div 4)

\* the identifiers a session holds: its own and those of its turns
SessionIds(s) == {s.id} \cup {s.messages[i].id : i \in 1..Len(s.messages)}

\* the renaming that sends each identifier of session a to the identifier at
\* the same place of session b
Renaming(a, b) ==
    [x \in SessionIds(a) |->
        IF x = a.id THEN b.id
        ELSE b.messages[CHOOSE i \in 1..Len(a.messages) : a.messages[i].id = x].id]

\* session s with every identifier x replaced by f[x]
Renamed(s, f) ==
    [s EXCEPT !.id = f[@], !.userMessageId = f[@], !.modelAMessageId = f[@],
              !.messages =
                  [i \in 1..Len(@) |->
                      [@[i] EXCEPT !.id = f[@], !.evaluationSessionId = f[@],
                                   !.parentMessageIds =
                                       [j \in 1..Len(@) |-> f[@[j]]]]]]

\* C12: translating the same request twice gives two sessions that are equal
\* once the identifiers of the first are renamed, one to one, to those of
\* the second, and the two calls share no identifier
C12_TranslateTwice ==
    pc = "converted_again"
    => /\ Len(first_session.messages) = Len(arena_request.messages)
       /\ LET f == Renaming(first_session, arena_request)
          IN  /\ \A x, y \in DOMAIN f : f[x] = f[y] => x = y
              /\ Renamed(first_session, f) = arena_request
       /\ SessionIds(first_session) \cap SessionIds(arena_request) = {}

\* a request of two messages was translated twice
C12_Witness ==
    /\ pc = "converted_again"
    /\ Len(InputMessages) = 2
    /\ Len(first_session.messages) = 3
    /\ arena_request # first_session

\* C14: the turn ids of a session are pairwise distinct, the first turn has
\* no parent and every later turn, the appended assistant turn included, has
\* exactly the turn before it as parent
C14_LinearParentChain ==
    pc \in {"converted", "converted_again"}
    => /\ \A i, j \in 1..Len(Turns) : Turns[i].id = Turns[j].id => i = j
       /\ Turns[1].parentMessageIds = <<>>
       /\ \A i \in 2..Len(Turns) : Turns[i].parentMessageIds = <<Turns[i - 1].id>>

\* a chain of three turns: two messages and the assistant turn
C14_Witness ==
    /\ pc = "converted"
    /\ Len(Turns) = 3
    /\ Turns[1].id # Turns[2].id
    /\ Turns[2].parentMessageIds = <<Turns[1].id>>
    /\ Turns[3].parentMessageIds = <<Turns[2].id>>

----------------------------------------------------------------------------
(* Properties of the provider connection *)

\* C11: once a streaming response has finished or its consumer has stopped
\* consuming, the provider connection opened for it is not open
C11_NoOpenConnectionAfterStop ==
    pc \in {"done", "cancelled", "abandoned", "finalized"} => conn # "open"

----------------------------------------------------------------------------
(* Properties of the HTTP boundary *)

\* the request carries neither casing of the LA cookie header, or neither
\* casing of the CF clearance header
LacksAuthHeader ==
    \/ request.headers["X-LA-Cookie"] = NoneStr /\ request.headers["LA-Cookie"] = NoneStr
    \/ request.headers["X-CF-Clearance"] = NoneStr
       /\ request.headers["CF-Clearance"] = NoneStr

\* C13: on /v1/models, /v1/chat/completions and /v1/images/generations a
\* request lacking the LA cookie header or the CF clearance header is
\* answered 401 missing_cookies, whatever its body, and nothing is built for
\* or sent to the provider
C13_MissingCookiesRejected ==
    (/\ request.endpoint \in {"models", "chat", "images"}
     /\ LacksAuthHeader
     /\ pc # "auth")
    => /\ pc = "done"
       /\ response.status = 401
       /\ response.body = ErrorBody("Missing authentication cookies",
                                    "authentication_error", "missing_cookies")
       /\ auth_context = NoneObj
       /\ arena_request = NoneObj
       /\ calls = 0
       /\ conn = "none"

\* an image request with the LA cookie only and a body that is not JSON was
\* answered 401
C13_Witness ==
    /\ pc = "done"
    /\ request.endpoint = "images"
    /\ request.headers["X-LA-Cookie"] = "la"
    /\ LacksAuthHeader
    /\ ~request.body.valid_json
    /\ response.status = 401

\* the provider's answer to a unary POST is a failure: a non-2xx status, no
\* connection, a body that is not JSON or JSON that is not an object
UnaryFailure ==
    /\ response_data # NoneObj
    /\ response_data.kind # "json" \/ ~response_data.is_dict

\* C15: in unary mode, chat and images, a transport error or a malformed
\* provider body is answered with a 5xx status and the internal-error envelope
C15_UnaryFailureIs5xx ==
    (request.endpoint \in {"chat", "images"} /\ UnaryFailure)
    => /\ pc = "done"
       /\ response.status \in 500..599
       /\ response.body = InternalError.body

\* the model the request asks for: the body's, or the default of the images
\* endpoint
RequestedModel ==
    IF request.endpoint = "images" /\ "model" \notin request.body.keys
    THEN "dall-e-3"
    ELSE request.body.model

\* C16: on every path, images included, no provider call is issued and no
\* session is built for a model the registry does not serve
C16_ModelCheckedOnEveryPath ==
    (calls > 0 \/ conn # "none" \/ arena_request # NoneObj)
    => RequestedModel \notin RejectedModels

\* C17: a streaming response that ran to completion ends with the terminator,
\* emitted exactly once
C17_EndsWithOneTerminator ==
    (IsStreaming /\ pc = "done")
    => /\ out # <<>>
       /\ out[Len(out)] = DoneFrame
       /\ CountFrames(IsDoneFrame) = 1

====
